---- MODULE Spec2Model ----
(***************************************************************************)
(* Ceph pool usage report: ceph_usage_report.py (module "direct", queries  *)
(* Prometheus) and ceph_usage_report_via_grafana.py (module "grafana",     *)
(* queries through the Grafana datasource proxy).                          *)
(*                                                                         *)
(* Strings the program computes with (dates, bucket keys, stringified      *)
(* sample values) are sequences of one-character strings, so that parsing, *)
(* formatting and Python's code-point string order are computed, not       *)
(* assumed.  Sample values are byte counts (naturals); a quotient is kept  *)
(* exactly as num / (den * 2^exp2).                                        *)
(***************************************************************************)
EXTENDS Integers, Sequences, FiniteSets, TLC

VARIABLES module, caller, pc, args, request, response, samples, rows, stdout, exc

vars == <<module, caller, pc, args, request, response, samples, rows, stdout, exc>>

----------------------------------------------------------------------------
(* Bounds of the model *)

\* longest "values" list of the first series of a response
MaxSamples == 3
\* most series in the "result" list of a response
MaxSeries == 2

----------------------------------------------------------------------------
(* Characters and decimal text *)

Digits == <<"0", "1", "2", "3", "4", "5", "6", "7", "8", "9">>

IsDigit(c) == \E i \in 1..10 : Digits[i] = c

DigitValue(c) == (CHOOSE i \in 1..10 : Digits[i] = c) - 1

\* Unicode code point of the characters that occur in dates and bucket keys
Ord(c) == IF c = "-" THEN 45 ELSE 48 + DigitValue(c)

RECURSIVE ToDecimal(_)
\* str(n) for n >= 0
ToDecimal(n) == IF n < 10 THEN <<Digits[n + 1]>>
                ELSE ToDecimal(n \div 10) \o <<Digits[(n % 10) + 1]>>

RECURSIVE PadLeft(_, _)
PadLeft(s, w) == IF Len(s) >= w THEN s ELSE PadLeft(<<"0">> \o s, w)

\* the digits without padding, as format(n, "d") gives them
NoPad(n, w) == ToDecimal(n)

\* format(n, "0<w>d"): at least w digits, zero-padded, never truncated
ZeroPad(n, w) == PadLeft(ToDecimal(n), w)

RECURSIVE ParseDigits(_)
\* value of a string of decimal digits
ParseDigits(s) == IF Len(s) = 0 THEN 0
                  ELSE 10 * ParseDigits(SubSeq(s, 1, Len(s) - 1)) + DigitValue(s[Len(s)])

AllDigits(s) == Len(s) > 0 /\ \A i \in 1..Len(s) : IsDigit(s[i])

----------------------------------------------------------------------------
(* The proleptic Gregorian calendar of datetime *)

IsLeap(y) == y % 4 = 0 /\ (y % 100 # 0 \/ y % 400 = 0)

DaysInMonth(y, m) == IF m = 2 THEN (IF IsLeap(y) THEN 29 ELSE 28)
                     ELSE IF m \in {4, 6, 9, 11} THEN 30 ELSE 31

RECURSIVE DaysBeforeMonth(_, _)
DaysBeforeMonth(y, m) == IF m = 1 THEN 0
                         ELSE DaysBeforeMonth(y, m - 1) + DaysInMonth(y, m - 1)

DaysBeforeYear(y) == LET p == y - 1
                     IN  p * 365 + p \div 4 - p \div 100 + p \div 400

\* date.toordinal(): 0001-01-01 is day 1
YmdToOrd(y, m, d) == DaysBeforeYear(y) + DaysBeforeMonth(y, m) + d

\* date.max is 9999-12-31
MaxOrdinal == YmdToOrd(9999, 12, 31)

\* days in 4, 100 and 400 consecutive years
DI4Y == DaysBeforeYear(5)
DI100Y == DaysBeforeYear(101)
DI400Y == DaysBeforeYear(401)

RECURSIVE MonthOfDayInYear(_, _, _)
\* the month and day of the n-th day (n >= 0) of year y, trying month m first
MonthOfDayInYear(y, m, n) ==
    IF n < DaysInMonth(y, m) THEN [year |-> y, month |-> m, day |-> n + 1]
    ELSE MonthOfDayInYear(y, m + 1, n - DaysInMonth(y, m))

\* date.fromordinal(): the 400/100/4/1-year cycle decomposition
OrdToYmd(ordinal) ==
    LET n0   == ordinal - 1
        n400 == n0 \div DI400Y
        r400 == n0 % DI400Y
        n100 == r400 \div DI100Y
        r100 == r400 % DI100Y
        n4   == r100 \div DI4Y
        r4   == r100 % DI4Y
        n1   == r4 \div 365
        r1   == r4 % 365
        y    == n400 * 400 + n100 * 100 + n4 * 4 + n1 + 1
    IN  IF n1 = 4 \/ n100 = 4 THEN [year |-> y - 1, month |-> 12, day |-> 31]
        ELSE MonthOfDayInYear(y, 1, r1)

\* datetime(1970, 1, 1).toordinal()
EpochOrdinal == YmdToOrd(1970, 1, 1)

SecondsPerDay == 24 * 60 * 60

\* dt.datetime.utcfromtimestamp(ts): the UTC calendar date of a POSIX time
\* (\div rounds down, as the conversion does for times before the epoch)
utcfromtimestamp(ts) == OrdToYmd(EpochOrdinal + ts \div SecondsPerDay)

\* date.isoformat(): YYYY-MM-DD
isoformat(t) == ZeroPad(t.year, 4) \o <<"-">> \o ZeroPad(t.month, 2)
                \o <<"-">> \o ZeroPad(t.day, 2)

\* datetime.isoformat() of a datetime at midnight
datetime_isoformat(t) ==
    isoformat(t) \o <<"T", "0", "0", ":", "0", "0", ":", "0", "0">>

----------------------------------------------------------------------------
(* Results of calls that may raise *)

Return(v) == [ok |-> TRUE, val |-> v]

\* an exception of class t raised in function f
Raise(t, m, f) == [ok |-> FALSE, type |-> t, msg |-> m, raised_in |-> f]

NoException == [type |-> "None", msg |-> "", raised_in |-> ""]

Exception(r) == [type |-> r.type, msg |-> r.msg, raised_in |-> r.raised_in]

----------------------------------------------------------------------------
(* parse_date and the exclusive end *)

\* dt.datetime.strptime(s, "%Y-%m-%d") on a ten-character string: four digits,
\* hyphen, two digits, hyphen, two digits, naming a date that exists
parse_date(s) ==
    IF /\ Len(s) = 10
       /\ s[5] = "-" /\ s[8] = "-"
       /\ AllDigits(SubSeq(s, 1, 4))
       /\ AllDigits(SubSeq(s, 6, 7))
       /\ AllDigits(SubSeq(s, 9, 10))
    THEN LET y == ParseDigits(SubSeq(s, 1, 4))
             m == ParseDigits(SubSeq(s, 6, 7))
             d == ParseDigits(SubSeq(s, 9, 10))
         IN  IF y >= 1 /\ m \in 1..12 /\ d >= 1 /\ d <= DaysInMonth(y, m)
             THEN Return([year |-> y, month |-> m, day |-> d])
             ELSE Raise("ValueError", "strptime", "parse_date")
    ELSE Raise("ValueError", "strptime", "parse_date")

\* the day number incremented in place, without the calendar
PlusOneDay_AdHoc(t) == Return([t EXCEPT !.day = @ + 1])

\* t + dt.timedelta(days=1): through the ordinal, OverflowError past date.max
PlusOneDay(t) ==
    LET o == YmdToOrd(t.year, t.month, t.day) + 1
    IN  IF o > MaxOrdinal THEN Raise("OverflowError", "date value out of range", "timedelta")
        ELSE Return(OrdToYmd(o))

----------------------------------------------------------------------------
(* bucket_key *)

\* an unsupported mode treated as "day"
bucket_key_DefaultsToDay(ts, group_by) ==
    LET t == utcfromtimestamp(ts)
    IN  IF group_by = "month"
        THEN Return(ZeroPad(t.year, 4) \o <<"-">> \o ZeroPad(t.month, 2))
        ELSE Return(isoformat(t))

bucket_key(ts, group_by) ==
    LET t == utcfromtimestamp(ts)
    IN  IF group_by = "day" THEN Return(isoformat(t))
        ELSE IF group_by = "month"
             THEN Return(ZeroPad(t.year, 4) \o <<"-">> \o ZeroPad(t.month, 2))
        ELSE Raise("ValueError", "group_by must be 'day' or 'month'", "bucket_key")

----------------------------------------------------------------------------
(* Numbers: a float that holds sum / count or a division by 1024 ** 3 is kept *)
(* exactly, as num / (den * 2^exp2)                                            *)

Quotient(n, d) == [num |-> n, den |-> d, exp2 |-> 0]

\* x / (1024 ** 3), with 1024 = 2^10
DivGiB(x) == [x EXCEPT !.exp2 = @ + 10 * 3]

\* format(x, ".2f"): x rounded to hundredths (an exact tie goes to the even
\* neighbour), integer part, point, two digits
Fmt2f(x) ==
    LET p      == 2 ^ x.exp2
        h      == (200 * x.num) \div x.den
        twice  == h \div p
        tie    == (200 * x.num) % x.den = 0 /\ h % p = 0 /\ twice % 2 = 1
        down   == (twice - 1) \div 2
        cents  == IF tie /\ down % 2 = 0 THEN down ELSE (twice + 1) \div 2
    IN  ToDecimal(cents \div 100) \o <<".">> \o ZeroPad(cents % 100, 2)

\* float(val) of the stringified value of a sample, a string of decimal digits
float(val) == ParseDigits(val)

----------------------------------------------------------------------------
(* aggregate_usage after the fetch: buckets, rows *)

RECURSIVE StrLess(_, _)
\* Python's a < b on str: the first differing code point decides, a proper
\* prefix is smaller
StrLess(a, b) ==
    IF Len(b) = 0 THEN FALSE
    ELSE IF Len(a) = 0 THEN TRUE
    ELSE IF a[1] # b[1] THEN Ord(a[1]) < Ord(b[1])
    ELSE StrLess(Tail(a), Tail(b))

RECURSIVE sorted(_)
\* sorted(keys): ascending list of a set of distinct strings
sorted(keys) ==
    IF keys = {} THEN <<>>
    ELSE LET least == CHOOSE k \in keys : \A o \in keys \ {k} : StrLess(k, o)
         IN  <<least>> \o sorted(keys \ {least})

\* defaultdict(list)
EmptyBuckets == [k \in {} |-> <<>>]

\* buckets[k].append(val)
BucketAppend(buckets, k, val) ==
    IF k \in DOMAIN buckets THEN [buckets EXCEPT ![k] = Append(@, val)]
    ELSE buckets @@ (k :> <<val>>)

RECURSIVE FillBuckets(_, _, _)
\* for ts, val in samples: k = bucket_key(ts, group_by); buckets[k].append(val)
FillBuckets(buckets, rest, group_by) ==
    IF rest = <<>> THEN Return(buckets)
    ELSE LET k == bucket_key(rest[1][1], group_by)
         IN  IF ~k.ok THEN k
             ELSE FillBuckets(BucketAppend(buckets, k.val, rest[1][2]),
                              Tail(rest), group_by)

RECURSIVE sum(_)
sum(vals) == IF vals = <<>> THEN 0 ELSE vals[1] + sum(Tail(vals))

\* the last value of the bucket taken for its maximum
max_Last(vals) == vals[Len(vals)]

RECURSIVE max(_)
max(vals) == IF Len(vals) = 1 THEN vals[1]
             ELSE LET m == max(Tail(vals))
                  IN  IF m > vals[1] THEN m ELSE vals[1]

\* the dict appended to rows for one period
UsageRow(period, vals) ==
    LET avg_bytes == Quotient(sum(vals), Len(vals))
        max_bytes == Quotient(max(vals), 1)
    IN  [period    |-> period,
         avg_bytes |-> avg_bytes,
         max_bytes |-> max_bytes,
         avg_gib   |-> DivGiB(avg_bytes),
         max_gib   |-> DivGiB(max_bytes)]

\* the loop over the periods stopping one short
BuildRows_OneShort(buckets) ==
    LET periods == sorted(DOMAIN buckets)
    IN  [i \in 1..(Len(periods) - 1) |-> UsageRow(periods[i], buckets[periods[i]])]

\* rows = []; for period in sorted(buckets.keys()): rows.append({...})
BuildRows(buckets) ==
    LET periods == sorted(DOMAIN buckets)
    IN  [i \in 1..Len(periods) |-> UsageRow(periods[i], buckets[periods[i]])]

\* aggregate_usage without `if not samples: raise`
AggregateSamples_NoEmptyCheck(fetched, group_by) ==
    LET filled == FillBuckets(EmptyBuckets, fetched, group_by)
    IN  IF ~filled.ok THEN filled ELSE Return(BuildRows(filled.val))

\* aggregate_usage from the empty check to return rows
AggregateSamples(fetched, group_by) ==
    IF fetched = <<>> THEN Raise("ValueError", "No data in this interval", "aggregate_usage")
    ELSE LET filled == FillBuckets(EmptyBuckets, fetched, group_by)
         IN  IF ~filled.ok THEN filled ELSE Return(BuildRows(filled.val))

----------------------------------------------------------------------------
(* Configuration *)

PROM_URL == "http://171.244.195.198:9095"
GRAFANA_URL == "http://192.168.169.30:3000"
DATASOURCE_ID == 2
METRIC == "ceph_pool_bytes_used"
STEP == "1h"

\* timeout=30 of the request through Grafana
GrafanaTimeout == 30

build_query(pool_id) == [metric |-> METRIC, pool_id |-> pool_id]

\* what query_range hands to requests.get; timeout {} is no timeout (None)
BuildRequest(m, pool_id, start, end) ==
    [url     |-> IF m = "direct"
                 THEN [base |-> PROM_URL, proxy |-> {},
                       path |-> "/api/v1/query_range"]
                 ELSE [base |-> GRAFANA_URL, proxy |-> {DATASOURCE_ID},
                       path |-> "/api/v1/query_range"],
     params  |-> [query |-> build_query(pool_id),
                  start |-> datetime_isoformat(start) \o <<"Z">>,
                  end   |-> datetime_isoformat(end) \o <<"Z">>,
                  step  |-> STEP],
     timeout |-> IF m = "direct" THEN {} ELSE {GrafanaTimeout}]

----------------------------------------------------------------------------
(* Inputs: command lines, call arguments, responses of the backend *)

Modules == {"direct", "grafana"}

\* group_by values a command line or a caller may give
GroupBys == {"day", "month", "week"}

D_2025_10_01 == <<"2", "0", "2", "5", "-", "1", "0", "-", "0", "1">>
D_2025_10_31 == <<"2", "0", "2", "5", "-", "1", "0", "-", "3", "1">>
D_2025_11_30 == <<"2", "0", "2", "5", "-", "1", "1", "-", "3", "0">>
D_2025_12_31 == <<"2", "0", "2", "5", "-", "1", "2", "-", "3", "1">>
D_2024_02_28 == <<"2", "0", "2", "4", "-", "0", "2", "-", "2", "8">>
D_2025_02_28 == <<"2", "0", "2", "5", "-", "0", "2", "-", "2", "8">>
D_9999_12_31 == <<"9", "9", "9", "9", "-", "1", "2", "-", "3", "1">>
\* no such dates
D_2025_02_30 == <<"2", "0", "2", "5", "-", "0", "2", "-", "3", "0">>
D_2025_13_01 == <<"2", "0", "2", "5", "-", "1", "3", "-", "0", "1">>

FromDates == {D_2025_10_01, D_2025_02_30}

ToDates == {D_2025_10_01, D_2025_10_31, D_2025_12_31, D_2024_02_28,
            D_2025_02_28, D_9999_12_31, D_2025_13_01}

\* [timestamp, "value"] pairs a series may hold:
\* 2024-02-29T05:00:00Z, 2025-09-30T23:59:59Z, 2025-10-01T00:30:00Z,
\* 2025-10-01T12:00:00Z, 2025-10-02T00:00:00Z
PairUniverse == {<<1709182800, <<"3", "0", "0">>>>,
                 <<1759276799, <<"5", "0", "0">>>>,
                 <<1759278600, <<"1", "0", "0">>>>,
                 <<1759320000, <<"3", "0", "0">>>>,
                 <<1759363200, <<"5", "0", "0">>>>}

\* a further series matching the same selector: 2025-10-01T12:00:00Z, 900
OtherSeries == [values |-> <<<<1759320000, <<"9", "0", "0">>>>>>]

RECURSIVE SeqsUpTo(_, _)
\* the sequences over S of length at most n
SeqsUpTo(S, n) ==
    IF n = 0 THEN {<<>>}
    ELSE LET shorter == SeqsUpTo(S, n - 1)
         IN  shorter \cup {Append(q, x) : q \in {r \in shorter : Len(r) = n - 1}, x \in S}

\* result lists: none, or a first series followed by copies of OtherSeries
ResultLists ==
    {<<>>} \cup
    {<<[values |-> v]>> \o [i \in 1..k |-> OtherSeries] :
        v \in SeqsUpTo(PairUniverse, MaxSamples), k \in 0..(MaxSeries - 1)}

\* what the endpoint may answer: HTTP 200 with a Prometheus body (success or
\* error), HTTP 200 with a body that has no status field (a proxy's own JSON),
\* HTTP 400 with a Prometheus error body, HTTP 503 without JSON
Responses ==
    {[status_code |-> 200,
      json |-> [status |-> "success",
                data |-> [resultType |-> "matrix", result |-> r]]] : r \in ResultLists}
    \cup {[status_code |-> 200, json |-> [status |-> "error", errorType |-> "timeout"]],
          [status_code |-> 200, json |-> [message |-> "Unauthorized"]],
          [status_code |-> 400, json |-> [status |-> "error", errorType |-> "bad_data"]],
          [status_code |-> 503, text |-> "Service Unavailable"]}

----------------------------------------------------------------------------
(* query_range after requests.get has returned *)

\* [(float(ts), float(val)) for ts, val in values]
ParseValues(values) ==
    [i \in 1..Len(values) |-> <<values[i][1], float(values[i][2])>>]

\* the status check: data["status"] in ceph_usage_report.py, data.get("status")
\* in ceph_usage_report_via_grafana.py
CheckStatus(m, data) ==
    IF "status" \notin DOMAIN data
    THEN IF m = "direct" THEN Raise("KeyError", "status", "query_range")
         ELSE Raise("RuntimeError", "Grafana/Prometheus error: {data}", "query_range")
    ELSE IF data.status # "success"
         THEN Raise("RuntimeError",
                    IF m = "direct" THEN "Prometheus error: {data}"
                    ELSE "Grafana/Prometheus error: {data}", "query_range")
         ELSE Return(data)

\* the last series taken instead of the first
SelectSeries_Last(result) == result[Len(result)].values

\* values = result[0]["values"]
SelectSeries(result) == result[1].values

\* r.raise_for_status() ... return [...]
QueryRangeResult(m, r) ==
    IF r.status_code >= 400
    THEN Raise("HTTPError", "raise_for_status", "query_range")
    ELSE IF "json" \notin DOMAIN r
    THEN Raise("JSONDecodeError", "r.json()", "query_range")
    ELSE LET checked == CheckStatus(m, r.json)
         IN  IF ~checked.ok THEN checked
             ELSE LET result == r.json.data.result
                  IN  IF result = <<>> THEN Return(<<>>)
                      ELSE Return(ParseValues(SelectSeries(result)))

----------------------------------------------------------------------------
(* What is printed *)

TextLine(t) == [kind |-> "text", text |-> t]

\* f"{period}: avg={avg_gib:.2f} GiB, max={max_gib:.2f} GiB"
RowLine(row) == [kind |-> "row", period |-> row.period,
                 avg |-> Fmt2f(row.avg_gib), max |-> Fmt2f(row.max_gib)]

RowLines(rs) == [i \in 1..Len(rs) |-> RowLine(rs[i])]

\* daily[:10]
FirstTen(rs) == SubSeq(rs, 1, IF Len(rs) < 10 THEN Len(rs) ELSE 10)

----------------------------------------------------------------------------
(* The run: module is the file, caller is "main" (the file run as a script) *)
(* or "call" (aggregate_usage called by an importer).  pc is where control  *)
(* is: "start", "waiting" (inside requests.get), "fetched" (query_range at  *)
(* its return), "aggregated" (aggregate_usage at return rows), "done", or   *)
(* "failed" (an exception reached the top level).  request and response     *)
(* hold at most one element.  args are the arguments of the call in         *)
(* progress; the dates are not read again once the request is built and     *)
(* are dropped when the answer arrives.                                     *)

\* main() of ceph_usage_report.py: pool_id, from_date, to_date
DirectMainArgs(g) == [pool_id |-> "7", from_date |-> D_2025_10_01,
                      to_date |-> D_2025_11_30, group_by |-> g]

StringArgs == [pool_id : {"7"}, from_date : FromDates, to_date : ToDates,
               group_by : GroupBys]

\* aggregate_usage of ceph_usage_report_via_grafana.py takes datetimes
DatetimeArgs == [pool_id : {"7"},
                 start : {[year |-> 2025, month |-> 10, day |-> 1]},
                 end : {[year |-> 2025, month |-> 10, day |-> 2],
                        [year |-> 2026, month |-> 1, day |-> 2]},
                 group_by : GroupBys]

Init ==
    /\ module \in Modules
    /\ caller \in {"main", "call"}
    /\ pc = "start"
    /\ args \in IF module = "direct"
                THEN (IF caller = "main" THEN {DirectMainArgs("day")} ELSE StringArgs)
                ELSE (IF caller = "main" THEN StringArgs ELSE DatetimeArgs)
    /\ request = <<>>
    /\ response = <<>>
    /\ samples = <<>>
    /\ rows = <<>>
    /\ stdout = <<>>
    /\ exc = NoException

\* an exception propagates to the top level and ends the run
Fail(r) ==
    /\ pc' = "failed"
    /\ exc' = Exception(r)

\* start = parse_date(from_date); end = parse_date(to_date) + dt.timedelta(days=1)
Window(from_date, to_date) ==
    LET start == parse_date(from_date)
        to    == parse_date(to_date)
    IN  IF ~start.ok THEN start
        ELSE IF ~to.ok THEN to
        ELSE LET end == PlusOneDay(to.val)
             IN  IF ~end.ok THEN end
                 ELSE Return([start |-> start.val, end |-> end.val])

\* query_range up to requests.get
Send(a, start, end) ==
    /\ request' = <<BuildRequest(module, a.pool_id, start, end)>>
    /\ pc' = "waiting"

\* aggregate_usage of ceph_usage_report.py up to requests.get
DirectAggregateUsage(a) ==
    LET w == Window(a.from_date, a.to_date)
    IN  IF w.ok THEN Send(a, w.val.start, w.val.end) /\ exc' = exc
        ELSE Fail(w) /\ request' = request

\* main() of ceph_usage_report.py up to the first requests.get
DirectMain ==
    /\ module = "direct" /\ caller = "main" /\ pc = "start"
    /\ DirectAggregateUsage(args)
    /\ UNCHANGED <<module, caller, args, response, samples, rows, stdout>>

\* aggregate_usage of ceph_usage_report.py called with strings
DirectCall ==
    /\ module = "direct" /\ caller = "call" /\ pc = "start"
    /\ DirectAggregateUsage(args)
    /\ UNCHANGED <<module, caller, args, response, samples, rows, stdout>>

\* parse_args: --group-by has choices=["day", "month"]
parse_args(a) ==
    IF a.group_by \in {"day", "month"} THEN Return(a)
    ELSE Raise("SystemExit", "argument --group-by: invalid choice", "parse_args")

\* main() of ceph_usage_report_via_grafana.py up to requests.get
GrafanaMain ==
    /\ module = "grafana" /\ caller = "main" /\ pc = "start"
    /\ LET parsed == parse_args(args)
           w      == Window(args.from_date, args.to_date)
       IN  IF ~parsed.ok
           THEN Fail(parsed) /\ UNCHANGED <<request, stdout>>
           ELSE IF ~w.ok
           THEN Fail(w) /\ UNCHANGED <<request, stdout>>
           ELSE /\ stdout' = stdout \o <<TextLine("Pool ID"), TextLine("Range"),
                                         TextLine("Group"), TextLine("-")>>
                /\ Send(args, w.val.start, w.val.end)
                /\ exc' = exc
    /\ UNCHANGED <<module, caller, args, response, samples, rows>>

\* aggregate_usage of ceph_usage_report_via_grafana.py called with datetimes
GrafanaCall ==
    /\ module = "grafana" /\ caller = "call" /\ pc = "start"
    /\ Send(args, args.start, args.end)
    /\ UNCHANGED <<module, caller, args, response, samples, rows, stdout, exc>>

\* requests.get returns r; query_range runs to its return or raises
Receive(r) ==
    /\ pc = "waiting"
    /\ request' = <<>>
    /\ response' = <<r>>
    /\ args' = [group_by |-> args.group_by]
    /\ LET got == QueryRangeResult(module, r)
       IN  IF got.ok
           THEN samples' = got.val /\ pc' = "fetched" /\ exc' = exc
           ELSE Fail(got) /\ samples' = samples
    /\ UNCHANGED <<module, caller, rows, stdout>>

\* requests.get gives up after the timeout it was given
Timeout ==
    /\ pc = "waiting"
    /\ request[1].timeout # {}
    /\ request' = <<>>
    /\ Fail(Raise("Timeout", "Read timed out", "query_range"))
    /\ UNCHANGED <<module, caller, args, response, samples, rows, stdout>>

\* requests.get cannot reach the endpoint
ConnectionFails ==
    /\ pc = "waiting"
    /\ request' = <<>>
    /\ Fail(Raise("ConnectionError", "Connection refused", "query_range"))
    /\ UNCHANGED <<module, caller, args, response, samples, rows, stdout>>

\* aggregate_usage from `if not samples` to `return rows`
Aggregate ==
    /\ pc = "fetched"
    /\ LET r == AggregateSamples(samples, args.group_by)
       IN  IF r.ok
           THEN rows' = r.val /\ pc' = "aggregated" /\ exc' = exc
           ELSE Fail(r) /\ rows' = rows
    /\ UNCHANGED <<module, caller, args, request, response, samples, stdout>>

\* main() of ceph_usage_report.py: print the daily rows, fetch again by month
DirectPrintDaily ==
    /\ module = "direct" /\ caller = "main" /\ pc = "aggregated"
    /\ args.group_by = "day"
    /\ stdout' = stdout \o <<TextLine("=== DAILY USAGE ===")>>
                        \o RowLines(FirstTen(rows))
    /\ args' = DirectMainArgs("month")
    /\ DirectAggregateUsage(args')
    /\ response' = <<>> /\ samples' = <<>> /\ rows' = <<>>
    /\ UNCHANGED <<module, caller>>

\* main() of ceph_usage_report.py: print the monthly rows
DirectPrintMonthly ==
    /\ module = "direct" /\ caller = "main" /\ pc = "aggregated"
    /\ args.group_by = "month"
    /\ stdout' = stdout \o <<TextLine("\\=== MONTHLY USAGE ===")>> \o RowLines(rows)
    /\ pc' = "done"
    /\ response' = <<>> /\ samples' = <<>> /\ rows' = <<>>
    /\ UNCHANGED <<module, caller, args, request, exc>>

\* main() of ceph_usage_report_via_grafana.py: print the rows
GrafanaPrint ==
    /\ module = "grafana" /\ caller = "main" /\ pc = "aggregated"
    /\ stdout' = stdout \o RowLines(rows)
    /\ pc' = "done"
    /\ response' = <<>> /\ samples' = <<>> /\ rows' = <<>>
    /\ UNCHANGED <<module, caller, args, request, exc>>

Next ==
    \/ DirectMain
    \/ DirectCall
    \/ GrafanaMain
    \/ GrafanaCall
    \/ \E r \in Responses : Receive(r)
    \/ Timeout
    \/ ConnectionFails
    \/ Aggregate
    \/ DirectPrintDaily
    \/ DirectPrintMonthly
    \/ GrafanaPrint

Spec == Init /\ [][Next]_vars

----------------------------------------------------------------------------
(* Properties *)

\* the body of the answer, when it has one
Answered == response # <<>>
HasJson == Answered /\ "json" \in DOMAIN response[1]
IsSuccess == /\ HasJson
             /\ response[1].status_code = 200
             /\ "status" \in DOMAIN response[1].json
             /\ response[1].json.status = "success"
Result == response[1].json.data.result

\* query_range has returned and aggregate_usage has run past it to its end
AggregationRan ==
    \/ pc = "aggregated"
    \/ pc = "failed" /\ Answered /\ exc.raised_in \in {"aggregate_usage", "bucket_key"}

NoDataError ==
    /\ exc.type = "ValueError"
    /\ exc.msg = "No data in this interval"
    /\ exc.raised_in = "aggregate_usage"

\* the key of every fetched sample under the group_by of the call
KeyOf(i) == bucket_key(samples[i][1], args.group_by).val
Keys == {KeyOf(i) : i \in 1..Len(samples)}

\* C1: when the fetch yields no samples, aggregate_usage of either module
\* raises ValueError("No data in this interval") whatever group_by is, and it
\* never returns an empty list of rows.
C1_EmptyInputRaises ==
    /\ pc = "aggregated" => rows # <<>>
    /\ (AggregationRan /\ samples = <<>>) =>
           pc = "failed" /\ NoDataError /\ rows = <<>>

C1_Witness ==
    /\ module = "grafana"
    /\ pc = "failed"
    /\ IsSuccess /\ Result = <<>>
    /\ args.group_by = "week"
    /\ NoDataError

\* C2: for a non-empty sample sequence and group_by day or month,
\* aggregate_usage returns at least one row and exactly one row per distinct
\* bucket key of the samples, and no row for any other key.
C2_OneRowPerKey ==
    /\ pc = "aggregated" =>
          /\ Len(rows) >= 1
          /\ Len(rows) = Cardinality(Keys)
          /\ \A k \in Keys : Cardinality({i \in 1..Len(rows) : rows[i].period = k}) = 1
          /\ \A i \in 1..Len(rows) : rows[i].period \in Keys
    /\ (AggregationRan /\ samples # <<>> /\ args.group_by \in {"day", "month"}) =>
          pc = "aggregated"

C2_Witness ==
    /\ pc = "aggregated"
    /\ Len(samples) = 3
    /\ Len(rows) = 2

\* indices of the samples of one period
Members(period) == {i \in 1..Len(samples) : KeyOf(i) = period}

RECURSIVE Total(_)
\* the sum of the values of the samples with indices in I
Total(I) == IF I = {} THEN 0
            ELSE LET i == CHOOSE j \in I : TRUE
                 IN  samples[i][2] + Total(I \ {i})

Scenario == <<<<1759278600, 100>>, <<1759320000, 300>>, <<1759363200, 500>>>>

Key_2025_10 == <<"2", "0", "2", "5", "-", "1", "0">>

C4_RowsAscending ==
    pc = "aggregated" =>
      \A r \in 1..(Len(rows) - 1) :
         /\ StrLess(rows[r].period, rows[r + 1].period)
         /\ \A i \in Members(rows[r].period), j \in Members(rows[r + 1].period) :
               samples[i][1] < samples[j][1]

C4_Witness ==
    /\ pc = "aggregated"
    /\ Len(rows) = 3
    /\ samples[1][1] > samples[2][1]
    /\ samples[2][1] > samples[3][1]

\* C5: bucket_key raises ValueError for a group_by other than day and month
\* and returns no key; aggregate_usage with such a group_by and at least one
\* sample fails with that error and returns no rows.
C5_UnsupportedModeRaises ==
    (Answered /\ args.group_by \notin {"day", "month"}) =>
      /\ \A i \in 1..Len(samples) : ~bucket_key(samples[i][1], args.group_by).ok
      /\ pc # "aggregated"
      /\ (AggregationRan /\ samples # <<>>) =>
            /\ pc = "failed"
            /\ exc.type = "ValueError"
            /\ exc.msg = "group_by must be 'day' or 'month'"
            /\ exc.raised_in = "bucket_key"
            /\ rows = <<>>

C5_Witness ==
    /\ pc = "failed"
    /\ exc.raised_in = "bucket_key"
    /\ Len(samples) = 2
    /\ args.group_by = "week"

\* the calendar day after t
NextCalendarDay(t) ==
    IF t.day < DaysInMonth(t.year, t.month) THEN [t EXCEPT !.day = @ + 1]
    ELSE IF t.month < 12 THEN [year |-> t.year, month |-> t.month + 1, day |-> 1]
    ELSE [year |-> t.year + 1, month |-> 1, day |-> 1]

Midnight == <<"T", "0", "0", ":", "0", "0", ":", "0", "0", "Z">>

\* a request built from the date strings of the call is in flight
WindowSent == pc = "waiting" /\ "to_date" \in DOMAIN args

\* C6: the window of the request is from_date at 00:00:00 to the calendar day
\* after to_date at 00:00:00, across month and year ends; with from_date equal
\* to to_date it is exactly one day.
C6_WindowIsInclusiveEndPlusOneDay ==
    WindowSent =>
      LET p     == request[1].params
          from  == parse_date(args.from_date)
          to    == parse_date(args.to_date)
          start == parse_date(SubSeq(p.start, 1, 10))
          end   == parse_date(SubSeq(p.end, 1, 10))
      IN  /\ from.ok /\ to.ok
          /\ Len(p.start) = 20 /\ Len(p.end) = 20
          /\ p.start = args.from_date \o Midnight
          /\ SubSeq(p.end, 11, 20) = Midnight
          /\ start.ok /\ start.val = from.val
          /\ end.ok /\ end.val = NextCalendarDay(to.val)
          /\ args.from_date = args.to_date => end.val = NextCalendarDay(start.val)

C6_Witness ==
    /\ module = "grafana"
    /\ WindowSent
    /\ args.from_date = D_2025_10_01
    /\ args.to_date = D_2025_10_01
    /\ request[1].params.start = D_2025_10_01 \o Midnight
    /\ request[1].params.end
         = <<"2", "0", "2", "5", "-", "1", "0", "-", "0", "2">> \o Midnight

\* the errors the taxonomy files under BackendError: the RuntimeError of the
\* status check and the HTTPError of raise_for_status
BackendErrors == {"RuntimeError", "HTTPError"}

\* C7: when the endpoint answers with a JSON body whose status is not
\* "success", or that has no status, query_range fails with a backend error
\* and returns no samples.
C7_NonSuccessIsBackendError ==
    (HasJson /\ ~IsSuccess) =>
       /\ pc = "failed"
       /\ exc.type \in BackendErrors
       /\ exc.raised_in = "query_range"
       /\ samples = <<>>

RowsPrinted == \E i \in 1..Len(stdout) : stdout[i].kind = "row"

\* C8: a run that ends with an error has printed no usage row.
C8_NoRowsBeforeError == pc = "failed" => ~RowsPrinted

\* C9: every request in flight carries a finite timeout.
C9_RequestHasTimeout == request # <<>> => request[1].timeout # {}

\* C10: from a successful answer with one or more series, query_range returns
\* exactly the pairs of the first series, in order, as numbers, and raises
\* nothing; no value of a further series reaches the samples or a row.
C10_FirstSeriesOnly ==
    (IsSuccess /\ Result # <<>>) =>
      LET first == Result[1].values
      IN  /\ ~(pc = "failed" /\ exc.raised_in = "query_range")
          /\ Len(samples) = Len(first)
          /\ \A i \in 1..Len(first) :
                /\ samples[i][1] = first[i][1]
                /\ samples[i][2] \in Nat
                /\ ToDecimal(samples[i][2]) = first[i][2]
          /\ \A r \in 1..Len(rows) :
                /\ \E i \in 1..Len(first) :
                      ToDecimal(rows[r].max_bytes.num) = first[i][2]
                /\ rows[r].avg_bytes.den <= Len(first)

C10_Witness ==
    /\ pc = "aggregated"
    /\ IsSuccess
    /\ Len(Result) = 2
    /\ Len(Result[1].values) = 2
    /\ Len(samples) = 2
    /\ rows[1].max_bytes.num < float(Result[2].values[1][2])

====
